---- MODULE Spec2Model ----
(***************************************************************************)
(* Renko and Point-and-Figure aggregation of mplfinance/_utils.py:         *)
(* _calculate_atr, combine_adjacent, coalesce_volume_dates,                *)
(* _construct_renko_collections and _construct_pointnfig_collections.      *)
(*                                                                         *)
(* One call of an aggregator is one behaviour: the initial state holds the *)
(* arguments, every action is one statement block or one loop iteration of *)
(* the function, and pc names the block that runs next.  A raised          *)
(* exception leaves pc at the block that raised and sets err.              *)
(*                                                                         *)
(* Prices are integers.  brick_size/box_size is the exact rational         *)
(* num/den (an ATR is a sum of true ranges over the window length); every  *)
(* price derived from it (prev_close_brick, curr_price, values) is kept as *)
(* its numerator over brick_size.den.  Sequences are 1-based here and      *)
(* 0-based in the source: At, PyAt, Pos convert, and every loop variable   *)
(* keeps the source's 0-based value.                                       *)
(***************************************************************************)
EXTENDS Integers, Sequences, FiniteSets, TLC

\* ---------------------------------------------------------------- bounds
MaxLen == 4        \* longest close series of SpecRenko and SpecPnF
MaxPrice == 2      \* closes of the aggregation specifications are in 0..MaxPrice
CfgMaxLen == 3     \* longest close series of Spec (all configurations)
CfgMaxPrice == 2   \* closes of Spec are in 0..CfgMaxPrice
MaxSize == 2       \* explicit brick/box sizes tried are 0..MaxSize
AtrMaxLen == 3     \* longest series of SpecATR
ExSpread == 3      \* SpecExample: highs/lows lie 0..ExSpread from the closes
TrendMaxPrice == 6 \* SpecTrend: the monotone close series lie in 0..TrendMaxPrice
ColMaxLen == 5     \* longest close series of SpecColumns
ColMaxPrice == 4   \* closes of SpecColumns are in 0..ColMaxPrice

\* ------------------------------------------------------ program constants
DefaultAtrLength == 14   \* 'atr_length' Default
DefaultReversal == 1     \* 'reversal' Default
MinReversal == 1         \* reversal < 1 raises
MaxReversal == 9         \* reversal > 9 raises
LowerLimitDen == 100     \* lower_limit = 0.01 * atr
UpperLimitDen == 2       \* upper_limit = (max - min) / 2

\* ------------------------------------------------------- python helpers
Abs(x) == IF x < 0 THEN -x ELSE x

Sign(x) == IF x > 0 THEN 1 ELSE IF x < 0 THEN -1 ELSE 0

Max2(a, b) == IF a >= b THEN a ELSE b

Max3(a, b, c) == Max2(a, Max2(b, c))

\* int(a / b) for b > 0: truncation toward zero
TruncDiv(a, b) == IF a >= 0 THEN a \div b ELSE -((-a) \div b)

\* s[k] for an in-range k >= 0
At(s, k) == s[k + 1]

\* whether s[k] is defined in Python (a negative k counts from the end)
InRange(s, k) == k >= -Len(s) /\ k < Len(s)

\* the 1-based position Python's s[k] denotes
Pos(s, k) == IF k < 0 THEN Len(s) + k + 1 ELSE k + 1

PyAt(s, k) == s[Pos(s, k)]

\* the mutant of PyPop (C18): removal by moving the last element into the gap
PyPop_swap(s, k) == [j \in 1..(Len(s) - 1) |-> IF j = Pos(s, k) THEN s[Len(s)] ELSE s[j]]

\* s after s.pop(k)
PyPop(s, k) == [j \in 1..(Len(s) - 1) |-> IF j < Pos(s, k) THEN s[j] ELSE s[j + 1]]

\* [x] * k
Rep(x, k) == [j \in 1..k |-> x]

\* s[a:b] for a, b >= 0
PySlice(s, a, b) ==
  LET hi == IF b > Len(s) THEN Len(s) ELSE b
  IN IF a >= hi THEN << >> ELSE [j \in 1..(hi - a) |-> s[a + j]]

RECURSIVE SumSeq(_)
SumSeq(s) == IF Len(s) = 0 THEN 0 ELSE s[1] + SumSeq(Tail(s))

RECURSIVE SeqMax(_)
SeqMax(s) == IF Len(s) = 1 THEN s[1] ELSE Max2(s[1], SeqMax(Tail(s)))

RECURSIVE SeqMin(_)
SeqMin(s) == IF Len(s) = 1 THEN s[1] ELSE -Max2(-s[1], -SeqMin(Tail(s)))

\* ------------------------------------------------------- _calculate_atr
\* tr of one loop iteration (lines 127-130); close_prev is read as Python
\* reads closes[i-1], so an index of -1 would wrap to the last close
TrueRange(i, highs, lows, closes) ==
  LET high == At(highs, i)
      low == At(lows, i)
      close_prev == PyAt(closes, i - 1)
  IN Max3(Abs(high - low), Abs(high - close_prev), Abs(low - close_prev))

\* for i in range(i, stop): atr += tr.  reads collects every index i-1 used
\* for close_prev, n counts the terms added
RECURSIVE AtrLoop(_, _, _, _, _, _)
AtrLoop(i, stop, highs, lows, closes, acc) ==
  IF i >= stop THEN acc
  ELSE AtrLoop(i + 1, stop, highs, lows, closes,
               [atr |-> acc.atr + TrueRange(i, highs, lows, closes),
                reads |-> acc.reads \cup {i - 1},
                n |-> acc.n + 1])

AtrRaise == [err |-> "ValueError", num |-> 0, den |-> 1, reads |-> {}, n |-> 0]

\* the mutant of calculate_atr for the window (C5): the loop starts one early
calculate_atr_early(atr_length, highs, lows, closes) ==
  IF atr_length < 1 THEN AtrRaise
  ELSE IF atr_length >= Len(closes) THEN AtrRaise
  ELSE LET r == AtrLoop(Len(highs) - atr_length - 1, Len(highs), highs, lows, closes,
                        [atr |-> 0, reads |-> {}, n |-> 0])
       IN [err |-> "none", num |-> r.atr, den |-> atr_length, reads |-> r.reads, n |-> r.n]

\* the mutant of calculate_atr for the guard (C6): > for >=
calculate_atr_gt(atr_length, highs, lows, closes) ==
  IF atr_length < 1 THEN AtrRaise
  ELSE IF atr_length > Len(closes) THEN AtrRaise
  ELSE LET r == AtrLoop(Len(highs) - atr_length, Len(highs), highs, lows, closes,
                        [atr |-> 0, reads |-> {}, n |-> 0])
       IN [err |-> "none", num |-> r.atr, den |-> atr_length, reads |-> r.reads, n |-> r.n]

\* _calculate_atr: the value returned is num/den = atr/atr_length
calculate_atr(atr_length, highs, lows, closes) ==
  IF atr_length < 1 THEN AtrRaise
  ELSE IF atr_length >= Len(closes) THEN AtrRaise
  ELSE LET r == AtrLoop(Len(highs) - atr_length, Len(highs), highs, lows, closes,
                        [atr |-> 0, reads |-> {}, n |-> 0])
       IN [err |-> "none", num |-> r.atr, den |-> atr_length, reads |-> r.reads, n |-> r.n]

\* ------------------------------------------------- size resolution
\* the window of the ATR a size of 'atr' is derived from (lines 764-767, 941-944)
AtrWindow_total(atr_length, closes) == Len(closes) - 1

AtrWindow_short(atr_length, closes) ==
  IF atr_length.total THEN Len(closes) - 2 ELSE atr_length.val

AtrWindow(atr_length, closes) ==
  IF atr_length.total THEN Len(closes) - 1 ELSE atr_length.val

\* brick_size > upper_limit, upper_limit = (max(closes) - min(closes)) / 2
SizeTooLarge_ge(size, closes) == UpperLimitDen * size >= SeqMax(closes) - SeqMin(closes)

SizeTooLarge(size, closes) == UpperLimitDen * size > SeqMax(closes) - SeqMin(closes)

\* brick_size < lower_limit, lower_limit = 0.01 * atr, atr = a.num / a.den
SizeTooSmall_le(size, a) == LowerLimitDen * a.den * size <= a.num

SizeTooSmall(size, a) == LowerLimitDen * a.den * size < a.num

SizeRaise == [err |-> "ValueError", num |-> 0, den |-> 1]

\* lines 763-774 and 940-951: the resolved size num/den, or the ValueError
ResolveSize(size, atr_length, highs, lows, closes) ==
  IF size.atr
  THEN LET a == calculate_atr(AtrWindow(atr_length, closes), highs, lows, closes)
       IN IF a.err # "none" THEN SizeRaise
          ELSE [err |-> "none", num |-> a.num, den |-> a.den]
  ELSE LET a == calculate_atr(Len(closes) - 1, highs, lows, closes)
       IN IF a.err # "none" THEN SizeRaise
          ELSE IF SizeTooLarge(size.val, closes) THEN SizeRaise
          ELSE IF SizeTooSmall(size.val, a) THEN SizeRaise
          ELSE [err |-> "none", num |-> size.val, den |-> 1]

\* reversal < 1 or reversal > 9 (line 953)
ReversalInvalid_wide(reversal) == reversal < MinReversal - 1 \/ reversal > MaxReversal + 1

ReversalInvalid(reversal) == reversal < MinReversal \/ reversal > MaxReversal

\* ------------------------------------------------------------- state
VARIABLES
  fn,            \* "renko" | "pnf" | "atr": the function called
  dates, highs, lows, closes,   \* the argument sequences
  volumes,       \* [given |-> FALSE] is volumes=None; v holds the sequence
  params,        \* [size, atr_length, reversal] after _process_kwargs
  pc,            \* the block that runs next, or that raised
  err,           \* "none" or the exception raised
  brick_size,    \* brick_size / box_size as [num, den]
  i,             \* the running loop's index variable
  prev_close_brick,   \* prev_close_brick / prev_close_box (numerator)
  volume_cache,
  cdiff, bricks, last_diff_sign, dates_volumes_index,   \* renko locals
  boxes, adjusted_boxes, temp_volumes, temp_dates,      \* pnf locals
  rolling_change, biggest_difference,
  new_dates, new_volumes,
  curr_price,    \* numerator
  values,        \* brick_values / box_values (numerators)
  atr_ret,       \* SpecATR: what _calculate_atr returned
  run,           \* SpecTwice: 1 in the first call, 2 in the repeated call
  first          \* SpecTwice: what the first call returned or raised

inputs == <<fn, dates, highs, lows, closes, volumes, params>>

calls == <<run, first>>

renko_locals == <<cdiff, bricks, last_diff_sign, dates_volumes_index>>

pnf_locals == <<boxes, adjusted_boxes, temp_volumes, temp_dates, rolling_change,
                biggest_difference>>

vars == <<inputs, calls, pc, err, brick_size, i, prev_close_brick, volume_cache,
          renko_locals, pnf_locals, new_dates, new_volumes, curr_price, values,
          atr_ret>>

NoAtr == [called |-> FALSE, err |-> "none", num |-> 0, den |-> 1, reads |-> {}, n |-> 0]

\* what a call hands back to its caller: the exception, or calculated_values
\* with the bricks or counts
NoOutcome == [err |-> "none", counts |-> << >>, dates |-> << >>, volumes |-> << >>,
              values |-> << >>, size |-> [num |-> 0, den |-> 1]]

\* the first call of a behaviour
FirstCall == run = 1 /\ first = NoOutcome

\* every local before its first assignment
LocalsInit ==
  /\ pc = "resolve_size" /\ err = "none"
  /\ brick_size = [num |-> 0, den |-> 1]
  /\ i = 0 /\ prev_close_brick = 0 /\ volume_cache = 0
  /\ cdiff = << >> /\ bricks = << >> /\ last_diff_sign = 0 /\ dates_volumes_index = 0
  /\ boxes = << >> /\ adjusted_boxes = << >> /\ temp_volumes = << >> /\ temp_dates = << >>
  /\ rolling_change = 0 /\ biggest_difference = 0
  /\ new_dates = << >> /\ new_volumes = << >>
  /\ curr_price = 0 /\ values = << >>

\* ------------------------------------------------------------ inputs
SeqsOf(S, lo, hi) == UNION {[1..n -> S] : n \in lo..hi}

\* the dates of n rows, in increasing order
DatesOf(n) == [k \in 1..n |-> k]

\* distinct volumes, so that a sum tells which rows it holds
VolumesOf(n) == [k \in 1..n |-> 2 ^ (k - 1)]

SizeAtr == [atr |-> TRUE, val |-> 0]

SizeNum(s) == [atr |-> FALSE, val |-> s]

LenTotal == [total |-> TRUE, val |-> 0]

LenNum(l) == [total |-> FALSE, val |-> l]

\* a call of F with closes C, highs/lows `spread` away from the closes
CallOf(F, C, spread, given, P) ==
  /\ fn = F
  /\ closes = C
  /\ highs = [k \in 1..Len(C) |-> C[k] + spread]
  /\ lows = [k \in 1..Len(C) |-> C[k] - spread]
  /\ dates = DatesOf(Len(C))
  /\ volumes = [given |-> given, v |-> IF given THEN VolumesOf(Len(C)) ELSE << >>]
  /\ params = P
  /\ atr_ret = NoAtr
  /\ LocalsInit
  /\ FirstCall

\* -------------------------------------------- _construct_renko_collections
\* the block after the loop over closes, and after the loop over cdiff
RenkoAfterPass1(cd) == IF Len(cd) = 0 THEN "values" ELSE "pass2"

\* lines 759-787: resolve and validate brick_size, then initialise pass 1
RenkoResolveSize ==
  /\ pc = "resolve_size" /\ err = "none" /\ fn = "renko"
  /\ LET r == ResolveSize(params.size, params.atr_length, highs, lows, closes)
     IN IF r.err # "none"
        THEN /\ err' = r.err
             /\ UNCHANGED <<pc, brick_size, prev_close_brick>>
        ELSE /\ err' = "none"
             /\ brick_size' = [num |-> r.num, den |-> r.den]
             /\ prev_close_brick' = closes[1] * r.den
             /\ pc' = IF Len(closes) - 1 = 0 THEN RenkoAfterPass1(cdiff) ELSE "pass1"
  /\ UNCHANGED <<inputs, calls, i, volume_cache, renko_locals, pnf_locals, new_dates,
                 new_volumes, curr_price, values, atr_ret>>

\* int((closes[i+1] - prev_close_brick) / brick_size), lines 790 and 968
BrickDiff_floor(close, prev, size) == (close * size.den - prev) \div size.num

BrickDiff(close, prev, size) == TruncDiv(close * size.den - prev, size.num)

\* line 798: the volume of a row is the step's volume plus the cache
CarriedVolume_own(v, cache) == v

CarriedVolume(v, cache) == v + cache

\* lines 789-801: one iteration of the loop over closes
RenkoPass1Step ==
  /\ pc = "pass1" /\ err = "none" /\ fn = "renko"
  /\ i < Len(closes) - 1
  /\ IF brick_size.num = 0
     THEN \* the division by a brick_size of 0 raises
          /\ err' = "ZeroDivisionError"
          /\ UNCHANGED <<pc, i, prev_close_brick, volume_cache, cdiff, new_dates,
                         new_volumes>>
     ELSE LET brick_diff == BrickDiff(At(closes, i + 1), prev_close_brick, brick_size)
              cd == IF brick_diff = 0 THEN cdiff
                    ELSE cdiff \o Rep(Sign(brick_diff), Abs(brick_diff))
          IN /\ err' = "none"
             /\ cdiff' = cd
             /\ IF brick_diff = 0
                THEN /\ volume_cache' = IF volumes.given
                                        THEN volume_cache + At(volumes.v, i)
                                        ELSE volume_cache
                     /\ UNCHANGED <<new_dates, new_volumes, prev_close_brick>>
                ELSE /\ new_volumes' = IF volumes.given
                                       THEN new_volumes \o Rep(CarriedVolume(At(volumes.v, i), volume_cache),
                                                               Abs(brick_diff))
                                       ELSE new_volumes
                     /\ volume_cache' = IF volumes.given THEN 0 ELSE volume_cache
                     /\ new_dates' = new_dates \o Rep(At(dates, i), Abs(brick_diff))
                     /\ prev_close_brick' = prev_close_brick + brick_diff * brick_size.num
             /\ IF i + 1 < Len(closes) - 1
                THEN i' = i + 1 /\ pc' = "pass1"
                ELSE i' = 0 /\ pc' = RenkoAfterPass1(cd)
  /\ UNCHANGED <<inputs, calls, brick_size, bricks, last_diff_sign, dates_volumes_index,
                 pnf_locals, curr_price, values, atr_ret>>

\* line 811: the unit reverses the trend
IsReversal_never(last, curr) == FALSE

IsReversal_first(last, curr) == curr # last

IsReversal_any(last, curr) == last # 0

IsReversal(last, curr) == last # 0 /\ curr # last

\* lines 813-819: drop the date of the unit at index idx and fold its volume
\* into a neighbour
DropUnit_nofold(nd, nv, idx, given) ==
  [err |-> "none", dates |-> PyPop(nd, idx), volumes |-> IF given THEN PyPop(nv, idx) ELSE nv]

\* the mutant of DropUnit (C28): the test for the last entry is off by one
DropUnit_edge(nd, nv, idx, given) ==
  IF ~InRange(nd, idx) THEN [err |-> "IndexError", dates |-> nd, volumes |-> nv]
  ELSE IF ~given THEN [err |-> "none", dates |-> PyPop(nd, idx), volumes |-> nv]
  ELSE LET to == IF idx = Len(nv) THEN idx - 1 ELSE idx + 1
       IN IF ~InRange(nv, idx) \/ ~InRange(nv, to)
          THEN [err |-> "IndexError", dates |-> PyPop(nd, idx), volumes |-> nv]
          ELSE [err |-> "none", dates |-> PyPop(nd, idx),
                volumes |-> PyPop([nv EXCEPT ![Pos(nv, to)] = @ + PyAt(nv, idx)], idx)]

\* the mutant of DropUnit (C27): the date of the dropped unit stays
DropUnit_keepdate(nd, nv, idx, given) ==
  IF ~given THEN [err |-> "none", dates |-> nd, volumes |-> nv]
  ELSE LET to == IF idx = Len(nv) - 1 THEN idx - 1 ELSE idx + 1
       IN [err |-> "none", dates |-> nd,
           volumes |-> PyPop([nv EXCEPT ![Pos(nv, to)] = @ + PyAt(nv, idx)], idx)]

\* the mutant of DropUnit (C20): the volume always goes to the previous entry
DropUnit_prev(nd, nv, idx, given) ==
  IF ~InRange(nd, idx) THEN [err |-> "IndexError", dates |-> nd, volumes |-> nv]
  ELSE IF ~given THEN [err |-> "none", dates |-> PyPop(nd, idx), volumes |-> nv]
  ELSE [err |-> "none", dates |-> PyPop(nd, idx),
        volumes |-> PyPop([nv EXCEPT ![Pos(nv, idx - 1)] = @ + PyAt(nv, idx)], idx)]

DropUnit(nd, nv, idx, given) ==
  IF ~InRange(nd, idx) THEN [err |-> "IndexError", dates |-> nd, volumes |-> nv]
  ELSE IF ~given THEN [err |-> "none", dates |-> PyPop(nd, idx), volumes |-> nv]
  ELSE LET to == IF idx = Len(nv) - 1 THEN idx - 1 ELSE idx + 1
       IN IF ~InRange(nv, idx) \/ ~InRange(nv, to)
          THEN [err |-> "IndexError", dates |-> PyPop(nd, idx), volumes |-> nv]
          ELSE [err |-> "none", dates |-> PyPop(nd, idx),
                volumes |-> PyPop([nv EXCEPT ![Pos(nv, to)] = @ + PyAt(nv, idx)], idx)]

\* lines 808-827: one iteration of the loop over cdiff (i is the position in cdiff)
RenkoPass2Step ==
  /\ pc = "pass2" /\ err = "none" /\ fn = "renko"
  /\ i < Len(cdiff)
  /\ LET diff == At(cdiff, i)
         curr_diff_sign == Sign(diff)
     IN IF IsReversal(last_diff_sign, curr_diff_sign)
        THEN LET d == DropUnit(new_dates, new_volumes, dates_volumes_index, volumes.given)
             IN /\ last_diff_sign' = curr_diff_sign
                /\ new_dates' = d.dates
                /\ new_volumes' = d.volumes
                /\ err' = d.err
                /\ UNCHANGED <<bricks, dates_volumes_index>>
                /\ IF d.err # "none" THEN UNCHANGED <<i, pc>>
                   ELSE /\ i' = i + 1
                        /\ pc' = IF i + 1 < Len(cdiff) THEN "pass2" ELSE "values"
        ELSE /\ last_diff_sign' = curr_diff_sign
             /\ bricks' = bricks \o Rep(IF diff > 0 THEN 1 ELSE -1, Abs(diff))
             /\ dates_volumes_index' = dates_volumes_index + 1
             /\ i' = i + 1
             /\ pc' = IF i + 1 < Len(cdiff) THEN "pass2" ELSE "values"
             /\ UNCHANGED <<new_dates, new_volumes, err>>
  /\ UNCHANGED <<inputs, calls, brick_size, prev_close_brick, volume_cache, cdiff, pnf_locals,
                 curr_price, values, atr_ret>>

\* the running curr_price after each of the bricks (lines 804, 842-843)
RECURSIVE BrickValues(_, _, _)
BrickValues(bs, price, step) ==
  IF Len(bs) = 0 THEN << >>
  ELSE <<price + step * bs[1]>> \o BrickValues(Tail(bs), price + step * bs[1], step)

\* the mutant of RenkoValues (C17): calculated_values' volumes are written
\* into the caller's volumes list
RenkoValues_writes ==
  /\ pc = "values" /\ err = "none" /\ fn = "renko"
  /\ values' = BrickValues(bricks, closes[1] * brick_size.den, brick_size.num)
  /\ curr_price' = closes[1] * brick_size.den + brick_size.num * SumSeq(bricks)
  /\ pc' = "returned"
  /\ volumes' = [volumes EXCEPT !.v = new_volumes]
  /\ UNCHANGED <<fn, dates, highs, lows, closes, params, calls, err, brick_size, i,
                 prev_close_brick, volume_cache, renko_locals, pnf_locals, new_dates,
                 new_volumes, atr_ret>>

\* lines 830-863: brick_values, and the return of calculated_values
RenkoValues ==
  /\ pc = "values" /\ err = "none" /\ fn = "renko"
  /\ values' = BrickValues(bricks, closes[1] * brick_size.den, brick_size.num)
  /\ curr_price' = closes[1] * brick_size.den + brick_size.num * SumSeq(bricks)
  /\ pc' = "returned"
  /\ UNCHANGED <<inputs, calls, err, brick_size, i, prev_close_brick, volume_cache,
                 renko_locals, pnf_locals, new_dates, new_volumes, atr_ret>>

RenkoNext == RenkoResolveSize \/ RenkoPass1Step \/ RenkoPass2Step \/ RenkoValues

\* ------------------------------------- combine_adjacent, coalesce_volume_dates
\* the mutant of LeadRun (C23): the inner loop stops after one element
LeadRun_one(arr, index) == 1

\* the inner while loop (lines 148-150): the number of leading elements of
\* arr that have the sign of arr[0]
RECURSIVE LeadRun(_, _)
LeadRun(arr, index) ==
  IF index < Len(arr) /\ Sign(At(arr, index)) = Sign(At(arr, 0))
  THEN LeadRun(arr, index + 1)
  ELSE index

\* the outer while loop (lines 146-156)
RECURSIVE CombineLoop(_, _, _, _)
CombineLoop(arr, curr_i, output, indexes) ==
  IF Len(arr) = 0 THEN [output |-> output, indexes |-> indexes]
  ELSE LET index == LeadRun(arr, 0)
       IN CombineLoop(SubSeq(arr, index + 1, Len(arr)), curr_i + index,
                      Append(output, SumSeq(SubSeq(arr, 1, index))),
                      Append(indexes, curr_i))

combine_adjacent(arr) == CombineLoop(arr, 0, << >>, << >>)

coalesce_volume_dates(in_volumes, in_dates, indexes) ==
  [volumes |-> [k \in 1..Len(indexes) |->
                  LET to_sum_to == IF k < Len(indexes) THEN indexes[k + 1]
                                   ELSE Len(in_volumes)
                  IN SumSeq(PySlice(in_volumes, indexes[k], to_sum_to))],
   dates |-> [k \in 1..Len(indexes) |-> At(in_dates, indexes[k])]]

\* ---------------------------------------- _construct_pointnfig_collections
\* lines 936-951: resolve and validate box_size
PnfResolveSize ==
  /\ pc = "resolve_size" /\ err = "none" /\ fn = "pnf"
  /\ LET r == ResolveSize(params.size, params.atr_length, highs, lows, closes)
     IN IF r.err # "none"
        THEN /\ err' = r.err
             /\ UNCHANGED <<pc, brick_size>>
        ELSE /\ err' = "none"
             /\ brick_size' = [num |-> r.num, den |-> r.den]
             /\ pc' = "check_reversal"
  /\ UNCHANGED <<inputs, calls, i, prev_close_brick, volume_cache, renko_locals, pnf_locals,
                 new_dates, new_volumes, curr_price, values, atr_ret>>

\* the mutant of PnfCheckReversal (C10): reversal is validated only after
\* the loop over closes has run
PnfCheckReversal_late ==
  /\ err = "none" /\ fn = "pnf"
  /\ IF pc = "check_reversal"
     THEN /\ err' = "none"
          /\ prev_close_brick' = closes[1] * brick_size.den
          /\ pc' = IF Len(closes) - 1 = 0 THEN "combine" ELSE "pass1"
     ELSE /\ pc = "combine" /\ ReversalInvalid(params.reversal)
          /\ err' = "ValueError"
          /\ UNCHANGED <<pc, prev_close_brick>>
  /\ UNCHANGED <<inputs, calls, brick_size, i, volume_cache, renko_locals, pnf_locals,
                 new_dates, new_volumes, curr_price, values, atr_ret>>

\* lines 953-965: validate reversal, then initialise pass 1
PnfCheckReversal ==
  /\ pc = "check_reversal" /\ err = "none" /\ fn = "pnf"
  /\ IF ReversalInvalid(params.reversal)
     THEN /\ err' = "ValueError"
          /\ UNCHANGED <<pc, prev_close_brick>>
     ELSE /\ err' = "none"
          /\ prev_close_brick' = closes[1] * brick_size.den
          /\ pc' = IF Len(closes) - 1 = 0 THEN "combine" ELSE "pass1"
  /\ UNCHANGED <<inputs, calls, brick_size, i, volume_cache, renko_locals, pnf_locals,
                 new_dates, new_volumes, curr_price, values, atr_ret>>

\* lines 967-979: one iteration of the loop over closes
PnfPass1Step ==
  /\ pc = "pass1" /\ err = "none" /\ fn = "pnf"
  /\ i < Len(closes) - 1
  /\ IF brick_size.num = 0
     THEN \* the division by a box_size of 0 raises
          /\ err' = "ZeroDivisionError"
          /\ UNCHANGED <<pc, i, prev_close_brick, volume_cache, boxes, temp_volumes,
                         temp_dates>>
     ELSE LET box_diff == BrickDiff(At(closes, i + 1), prev_close_brick, brick_size)
          IN /\ err' = "none"
             /\ IF box_diff = 0
                THEN /\ volume_cache' = IF volumes.given
                                        THEN volume_cache + At(volumes.v, i)
                                        ELSE volume_cache
                     /\ UNCHANGED <<boxes, temp_volumes, temp_dates, prev_close_brick>>
                ELSE /\ boxes' = Append(boxes, box_diff)
                     /\ temp_volumes' = IF volumes.given
                                        THEN Append(temp_volumes, At(volumes.v, i) + volume_cache)
                                        ELSE temp_volumes
                     /\ volume_cache' = IF volumes.given THEN 0 ELSE volume_cache
                     /\ temp_dates' = Append(temp_dates, At(dates, i))
                     /\ prev_close_brick' = prev_close_brick + box_diff * brick_size.num
             /\ IF i + 1 < Len(closes) - 1
                THEN i' = i + 1 /\ pc' = "pass1"
                ELSE i' = 0 /\ pc' = "combine"
  /\ UNCHANGED <<inputs, calls, brick_size, renko_locals, adjusted_boxes, rolling_change,
                 biggest_difference, new_dates, new_volumes, curr_price, values, atr_ret>>

\* lines 982-987: combine the adjacent like-signed differences; boxes[0] of
\* an empty list raises
PnfCombine ==
  /\ pc = "combine" /\ err = "none" /\ fn = "pnf"
  /\ LET c == combine_adjacent(boxes)
         v == coalesce_volume_dates(temp_volumes, temp_dates, c.indexes)
     IN IF Len(c.output) = 0
        THEN /\ err' = "IndexError"
             /\ boxes' = c.output
             /\ new_volumes' = v.volumes
             /\ new_dates' = v.dates
             /\ UNCHANGED <<pc, i, adjusted_boxes, temp_volumes, temp_dates, volume_cache>>
        ELSE /\ err' = "none"
             /\ boxes' = c.output
             /\ new_volumes' = v.volumes
             /\ new_dates' = v.dates
             /\ adjusted_boxes' = <<At(c.output, 0)>>
             /\ temp_volumes' = <<At(v.volumes, 0)>>
             /\ temp_dates' = <<At(v.dates, 0)>>
             /\ volume_cache' = 0
             /\ i' = 1
             /\ pc' = IF 1 < Len(c.output) THEN "pass3" ELSE "init4"
  /\ UNCHANGED <<inputs, calls, brick_size, prev_close_brick, renko_locals, rolling_change,
                 biggest_difference, curr_price, values, atr_ret>>

\* line 991: one box less, toward zero
AdjustedValue_same(box) == box

AdjustedValue(box) == box - Sign(box)

\* lines 990-1015: one iteration of the loop that subtracts the reversal box
PnfPass3Step ==
  /\ pc = "pass3" /\ err = "none" /\ fn = "pnf"
  /\ i < Len(boxes)
  /\ LET adjusted_value == AdjustedValue(At(boxes, i))
         last == PyAt(adjusted_boxes, -1)
         n == Len(adjusted_boxes)
     IN IF adjusted_value # 0 /\ last * adjusted_value < 0
        THEN /\ adjusted_boxes' = Append(adjusted_boxes, adjusted_value)
             /\ temp_volumes' = Append(temp_volumes, At(new_volumes, i) + volume_cache)
             /\ temp_dates' = Append(temp_dates, At(new_dates, i))
             /\ volume_cache' = 0
        ELSE IF adjusted_value # 0 /\ last * adjusted_value > 0
        THEN /\ adjusted_boxes' = [adjusted_boxes EXCEPT ![n] = @ + adjusted_value]
             /\ temp_volumes' = [temp_volumes EXCEPT ![n] = @ + At(new_volumes, i) + volume_cache]
             /\ volume_cache' = 0
             /\ UNCHANGED temp_dates
        ELSE /\ volume_cache' = volume_cache + At(new_volumes, i)
             /\ UNCHANGED <<adjusted_boxes, temp_volumes, temp_dates>>
  /\ i' = i + 1
  /\ pc' = IF i + 1 < Len(boxes) THEN "pass3" ELSE "init4"
  /\ UNCHANGED <<inputs, calls, err, brick_size, prev_close_brick, renko_locals, boxes,
                 rolling_change, biggest_difference, new_dates, new_volumes, curr_price,
                 values, atr_ret>>

\* lines 1017-1023: the first column, and the reset of the pending state
PnfInitPass4 ==
  /\ pc = "init4" /\ err = "none" /\ fn = "pnf"
  /\ boxes' = <<At(adjusted_boxes, 0)>>
  /\ new_volumes' = <<At(temp_volumes, 0)>>
  /\ new_dates' = <<At(temp_dates, 0)>>
  /\ rolling_change' = 0
  /\ volume_cache' = 0
  /\ biggest_difference' = 0
  /\ i' = 1
  /\ pc' = IF 1 < Len(adjusted_boxes) THEN "pass4" ELSE "finish"
  /\ UNCHANGED <<inputs, calls, err, brick_size, prev_close_brick, renko_locals, adjusted_boxes,
                 temp_volumes, temp_dates, curr_price, values, atr_ret>>

\* line 1038: the pending change reaches the reversal
ReachesReversal_gt(change, reversal) == Abs(change) > reversal

ReachesReversal_always(change, reversal) == TRUE

ReachesReversal_one(change, reversal) == Abs(change) >= 1

ReachesReversal(change, reversal) == Abs(change) >= reversal

\* line 1041: the flushed change has the sign of the last column
MergesIntoLast_never(change, last) == FALSE

MergesIntoLast(change, last) == change * last > 0

\* lines 1026-1056: one iteration of the reversal-threshold loop
PnfPass4Step ==
  /\ pc = "pass4" /\ err = "none" /\ fn = "pnf"
  /\ i < Len(adjusted_boxes)
  /\ LET change == rolling_change + At(adjusted_boxes, i)
         cache == volume_cache + At(temp_volumes, i)
         last == PyAt(boxes, -1)
         n == Len(boxes)
         biggest == IF change * last > 0 /\ Abs(change) > Abs(biggest_difference)
                    THEN change ELSE biggest_difference
     IN IF ReachesReversal(change, params.reversal)
        THEN /\ IF MergesIntoLast(change, last)
                THEN /\ boxes' = [boxes EXCEPT ![n] = @ + change]
                     /\ new_volumes' = [new_volumes EXCEPT ![Len(new_volumes)] = @ + cache]
                     /\ UNCHANGED new_dates
                ELSE /\ boxes' = Append(boxes, change)
                     /\ new_volumes' = Append(new_volumes, cache)
                     /\ new_dates' = Append(new_dates, At(temp_dates, i))
             /\ rolling_change' = 0
             /\ volume_cache' = 0
             /\ biggest_difference' = 0
        ELSE /\ rolling_change' = change
             /\ volume_cache' = cache
             /\ biggest_difference' = biggest
             /\ UNCHANGED <<boxes, new_volumes, new_dates>>
  /\ i' = i + 1
  /\ pc' = IF i + 1 < Len(adjusted_boxes) THEN "pass4" ELSE "finish"
  /\ UNCHANGED <<inputs, calls, err, brick_size, prev_close_brick, renko_locals, adjusted_boxes,
                 temp_volumes, temp_dates, curr_price, values, atr_ret>>

\* the mutant of BoxValues (C26): start_iteration is 0 for every column
RECURSIVE BoxValues_unshifted(_, _, _)
BoxValues_unshifted(bx, price, step) ==
  IF Len(bx) = 0 THEN << >>
  ELSE LET difference == bx[1]
           diff == Abs(difference)
           sign == Sign(difference)
           y == [j \in 1..diff |-> price + (j - 1) * step * sign]
       IN <<y>> \o BoxValues_unshifted(Tail(bx), price + step * sign * diff, step)

\* lines 1067-1077: the price levels of each column from the running curr_price
RECURSIVE BoxValues(_, _, _)
BoxValues(bx, price, step) ==
  IF Len(bx) = 0 THEN << >>
  ELSE LET difference == bx[1]
           diff == Abs(difference)
           sign == Sign(difference)
           start_iteration == IF sign > 0 THEN 0 ELSE 1
           y == [j \in 1..diff |-> price + (start_iteration + j - 1) * step * sign]
       IN <<y>> \o BoxValues(Tail(bx), price + step * sign * diff, step)

\* the mutant of PnfFinish (C25): the pending rolling_change itself is added
\* to the last column
PnfFinish_rolling ==
  /\ pc = "finish" /\ err = "none" /\ fn = "pnf"
  /\ LET bx == [boxes EXCEPT ![Len(boxes)] = @ + rolling_change]
     IN /\ boxes' = bx
        /\ new_volumes' = [new_volumes EXCEPT ![Len(new_volumes)] = @ + volume_cache]
        /\ IF \E k \in 1..Len(bx) : bx[k] = 0
           THEN /\ err' = "ZeroDivisionError"
                /\ UNCHANGED <<pc, values, curr_price>>
           ELSE /\ err' = "none"
                /\ values' = BoxValues(bx, closes[1] * brick_size.den, brick_size.num)
                /\ curr_price' = closes[1] * brick_size.den + brick_size.num * SumSeq(bx)
                /\ pc' = "returned"
  /\ UNCHANGED <<inputs, calls, brick_size, i, prev_close_brick, volume_cache, renko_locals,
                 adjusted_boxes, temp_volumes, temp_dates, rolling_change,
                 biggest_difference, new_dates, atr_ret>>

\* lines 1058-1106: the correction of the last column, box_values, and the
\* return of calculated_values; difference / abs(difference) of a column of 0
\* boxes raises
PnfFinish ==
  /\ pc = "finish" /\ err = "none" /\ fn = "pnf"
  /\ LET bx == [boxes EXCEPT ![Len(boxes)] = @ + biggest_difference]
     IN /\ boxes' = bx
        /\ new_volumes' = [new_volumes EXCEPT ![Len(new_volumes)] = @ + volume_cache]
        /\ IF \E k \in 1..Len(bx) : bx[k] = 0
           THEN /\ err' = "ZeroDivisionError"
                /\ UNCHANGED <<pc, values, curr_price>>
           ELSE /\ err' = "none"
                /\ values' = BoxValues(bx, closes[1] * brick_size.den, brick_size.num)
                /\ curr_price' = closes[1] * brick_size.den + brick_size.num * SumSeq(bx)
                /\ pc' = "returned"
  /\ UNCHANGED <<inputs, calls, brick_size, i, prev_close_brick, volume_cache, renko_locals,
                 adjusted_boxes, temp_volumes, temp_dates, rolling_change,
                 biggest_difference, new_dates, atr_ret>>

PnfNext ==
  \/ PnfResolveSize \/ PnfCheckReversal \/ PnfPass1Step \/ PnfCombine
  \/ PnfPass3Step \/ PnfInitPass4 \/ PnfPass4Step \/ PnfFinish

\* ------------------------------------------------------ specifications
\* SpecRenko: _construct_renko_collections on every close series of up to
\* MaxLen prices, with and without volumes
RenkoParams ==
  {[size |-> SizeAtr, atr_length |-> l, reversal |-> DefaultReversal] :
     l \in {LenTotal, LenNum(1)}}
  \cup {[size |-> SizeNum(s), atr_length |-> LenNum(DefaultAtrLength),
         reversal |-> DefaultReversal] : s \in 0..MaxSize}

InitRenko ==
  \E C \in SeqsOf(0..MaxPrice, 1, MaxLen), spread \in {0, 1}, given \in BOOLEAN,
     P \in RenkoParams :
    CallOf("renko", C, spread, given, P)

SpecRenko == InitRenko /\ [][RenkoNext]_vars

\* SpecExample: the series closes = [100,110,120,115,105,95] with
\* brick_size = 10, under every highs/lows up to ExSpread from the closes
ExampleCloses == <<100, 110, 120, 115, 105, 95>>

ExampleParams ==
  [size |-> SizeNum(10), atr_length |-> LenNum(DefaultAtrLength),
   reversal |-> DefaultReversal]

InitExample ==
  \E up \in 0..ExSpread, down \in 0..ExSpread, given \in BOOLEAN :
    /\ fn = "renko"
    /\ closes = ExampleCloses
    /\ highs = [k \in 1..Len(ExampleCloses) |-> ExampleCloses[k] + up]
    /\ lows = [k \in 1..Len(ExampleCloses) |-> ExampleCloses[k] - down]
    /\ dates = DatesOf(Len(ExampleCloses))
    /\ volumes = [given |-> given,
                  v |-> IF given THEN VolumesOf(Len(ExampleCloses)) ELSE << >>]
    /\ params = ExampleParams
    /\ atr_ret = NoAtr
    /\ LocalsInit
    /\ FirstCall

SpecExample == InitExample /\ [][RenkoNext]_vars

\* SpecTrend: _construct_renko_collections on the inputs of SpecRenko and on
\* every strictly increasing or strictly decreasing close series within
\* 0..TrendMaxPrice
RECURSIVE SortedSeq(_, _)
SortedSeq(S, up) ==
  IF S = {} THEN << >>
  ELSE LET x == CHOOSE y \in S : \A z \in S : IF up THEN y <= z ELSE y >= z
       IN <<x>> \o SortedSeq(S \ {x}, up)

MonotoneSeries ==
  {SortedSeq(S, up) : S \in (SUBSET (0..TrendMaxPrice)) \ {{}}, up \in BOOLEAN}

InitTrend ==
  \/ InitRenko
  \/ \E C \in MonotoneSeries, spread \in {0, 1}, given \in BOOLEAN, P \in RenkoParams :
       CallOf("renko", C, spread, given, P)

SpecTrend == InitTrend /\ [][RenkoNext]_vars

\* SpecATR: one call of _calculate_atr on independent highs, lows and
\* closes of equal length, with every atr_length from -1 to the length + 1
AtrPrices == {0, 1}

InitATR ==
  \E n \in 1..AtrMaxLen :
    \E H \in [1..n -> AtrPrices], L \in [1..n -> AtrPrices], C \in [1..n -> AtrPrices],
       l \in (-1)..(n + 1) :
      /\ fn = "atr"
      /\ closes = C /\ highs = H /\ lows = L
      /\ dates = DatesOf(n)
      /\ volumes = [given |-> FALSE, v |-> << >>]
      /\ params = [size |-> SizeAtr, atr_length |-> LenNum(l), reversal |-> DefaultReversal]
      /\ atr_ret = NoAtr
      /\ LocalsInit
      /\ FirstCall

\* the call _calculate_atr(atr_length, highs, lows, closes)
CallAtr ==
  /\ fn = "atr" /\ ~atr_ret.called
  /\ LET r == calculate_atr(params.atr_length.val, highs, lows, closes)
     IN /\ atr_ret' = [called |-> TRUE, err |-> r.err, num |-> r.num, den |-> r.den,
                       reads |-> r.reads, n |-> r.n]
        /\ err' = r.err
        /\ pc' = IF r.err = "none" THEN "returned" ELSE pc
  /\ UNCHANGED <<inputs, calls, brick_size, i, prev_close_brick, volume_cache, renko_locals,
                 pnf_locals, new_dates, new_volumes, curr_price, values>>

SpecATR == InitATR /\ [][CallAtr]_vars

\* SpecPnF: _construct_pointnfig_collections on every close series of up to
\* MaxLen prices, with and without volumes, for the reversals 1, 2, 3 and 9
PnfParams ==
  {[size |-> SizeAtr, atr_length |-> l, reversal |-> r] :
     l \in {LenTotal, LenNum(1)}, r \in {1, 2, 3, MaxReversal}}
  \cup {[size |-> SizeNum(s), atr_length |-> LenNum(DefaultAtrLength), reversal |-> r] :
          s \in 0..MaxSize, r \in {1, 2, 3, MaxReversal}}

InitPnF ==
  \E C \in SeqsOf(0..MaxPrice, 1, MaxLen), spread \in {0, 1}, given \in BOOLEAN,
     P \in PnfParams :
    CallOf("pnf", C, spread, given, P)

SpecPnF == InitPnF /\ [][PnfNext]_vars

\* SpecColumns: _construct_pointnfig_collections with box_size = 1 and
\* volumes on every close series of up to ColMaxLen prices in
\* 0..ColMaxPrice, long and wide enough for a pending change to build up over
\* three iterations of pass 4, for the reversals 1, 2 and 3
ColumnParams ==
  {[size |-> SizeNum(1), atr_length |-> LenNum(DefaultAtrLength), reversal |-> r] :
     r \in {1, 2, 3}}

InitColumns ==
  \E C \in SeqsOf(0..ColMaxPrice, 1, ColMaxLen), P \in ColumnParams :
    CallOf("pnf", C, 0, TRUE, P)

SpecColumns == InitColumns /\ [][PnfNext]_vars

\* SpecTwice: either aggregator on the inputs of SpecRenko and SpecPnF,
\* called a second time with the same argument objects once the first call
\* has returned or raised
Finished == pc = "returned" \/ err # "none"

\* what the finished call handed back
Outcome ==
  IF err # "none" THEN [NoOutcome EXCEPT !.err = err]
  ELSE [err |-> "none", counts |-> IF fn = "renko" THEN bricks ELSE boxes,
        dates |-> new_dates, volumes |-> new_volumes, values |-> values,
        size |-> brick_size]

\* the mutant of FreshLocals (C16): volume_cache outlives the call, as a
\* module-level variable would
FreshLocals_stale ==
  /\ pc' = "resolve_size" /\ err' = "none"
  /\ brick_size' = [num |-> 0, den |-> 1]
  /\ i' = 0 /\ prev_close_brick' = 0 /\ volume_cache' = volume_cache
  /\ cdiff' = << >> /\ bricks' = << >> /\ last_diff_sign' = 0 /\ dates_volumes_index' = 0
  /\ boxes' = << >> /\ adjusted_boxes' = << >> /\ temp_volumes' = << >> /\ temp_dates' = << >>
  /\ rolling_change' = 0 /\ biggest_difference' = 0
  /\ new_dates' = << >> /\ new_volumes' = << >>
  /\ curr_price' = 0 /\ values' = << >>

\* a new call binds every local anew (lines 783-787, 803-807, 962-965): no
\* local, default argument or module variable carries a value over
FreshLocals ==
  /\ pc' = "resolve_size" /\ err' = "none"
  /\ brick_size' = [num |-> 0, den |-> 1]
  /\ i' = 0 /\ prev_close_brick' = 0 /\ volume_cache' = 0
  /\ cdiff' = << >> /\ bricks' = << >> /\ last_diff_sign' = 0 /\ dates_volumes_index' = 0
  /\ boxes' = << >> /\ adjusted_boxes' = << >> /\ temp_volumes' = << >> /\ temp_dates' = << >>
  /\ rolling_change' = 0 /\ biggest_difference' = 0
  /\ new_dates' = << >> /\ new_volumes' = << >>
  /\ curr_price' = 0 /\ values' = << >>

\* the caller calls the aggregator again with the arguments of the first call
CallAgain ==
  /\ run = 1 /\ Finished /\ fn \in {"renko", "pnf"}
  /\ run' = 2
  /\ first' = Outcome
  /\ FreshLocals
  /\ UNCHANGED <<inputs, atr_ret>>

InitTwice == InitRenko \/ InitPnF

NextTwice == RenkoNext \/ PnfNext \/ CallAgain

SpecTwice == InitTwice /\ [][NextTwice]_vars

\* Spec: both aggregators under every configuration: a size of 'atr' with
\* atr_length 'total', 0..CfgMaxLen or the default; an explicit size of
\* 0..MaxSize; for pnf a reversal on either side of each end of [1, 9].
\* A spread of 50 makes every true range 100, so that 0.01 * ATR = 1.
CfgReversals(F) ==
  IF F = "renko" THEN {DefaultReversal}
  ELSE {MinReversal - 1, MinReversal, MaxReversal, MaxReversal + 1}

CfgParams(F) ==
  {[size |-> SizeAtr, atr_length |-> l, reversal |-> r] :
     l \in {LenTotal, LenNum(DefaultAtrLength)} \cup {LenNum(n) : n \in 0..CfgMaxLen},
     r \in CfgReversals(F)}
  \cup {[size |-> SizeNum(s), atr_length |-> l, reversal |-> r] :
          s \in 0..MaxSize, l \in {LenNum(0), LenNum(DefaultAtrLength)},
          r \in CfgReversals(F)}

Init ==
  \E F \in {"renko", "pnf"}, C \in SeqsOf(0..CfgMaxPrice, 1, CfgMaxLen),
     spread \in {0, 1, 50} :
    \E P \in CfgParams(F) : CallOf(F, C, spread, TRUE, P)

Next == RenkoNext \/ PnfNext

Spec == Init /\ [][Next]_vars

\* ------------------------------------------------------------ claims
Returned(F) == fn = F /\ pc = "returned"

\* C1 as stated: at the return of _construct_renko_collections with volumes
\* supplied, the returned volumes sum to the input volumes.
C1_RenkoVolumeConserved ==
  (Returned("renko") /\ volumes.given) => SumSeq(new_volumes) = SumSeq(volumes.v)

\* C1 as amended: the reversal-penalty pass of _construct_renko_collections
\* neither creates nor drops volume: no step after pass 1 changes the sum of
\* new_volumes, so the returned volumes sum to the per-unit volumes pass 1
\* emitted.
C1_RenkoPass2KeepsVolume ==
  [][(fn = "renko" /\ volumes.given /\ pc \in {"pass2", "values"})
       => SumSeq(new_volumes') = SumSeq(new_volumes)]_vars

\* a returned call with volumes in which a reversal dropped a unit
C1_Witness ==
  Returned("renko") /\ volumes.given /\ Len(new_volumes) < Len(cdiff)
  /\ Len(new_volumes) > 0

\* C2: at the return of _construct_pointnfig_collections with volumes
\* supplied, the returned column volumes sum to the input volumes.
C2_PnfVolumeConserved ==
  (Returned("pnf") /\ volumes.given) => SumSeq(new_volumes) = SumSeq(volumes.v)

\* C3 as stated: closes = [100,110,120,115,105,95] with brick_size = 10
\* returns the bricks [+1,+1,-1,-1].
C3_ExampleFourBricks == Returned("renko") => bricks = <<1, 1, -1, -1>>

\* C3 as amended: closes = [100,110,120,115,105,95] with brick_size = 10
\* returns the bricks [+1,+1,-1], at the price levels 110, 120, 110.
C3_ExampleThreeBricks ==
  Returned("renko") => bricks = <<1, 1, -1>> /\ values = <<110, 120, 110>>

\* the example call has returned
C3_Witness ==
  Returned("renko") /\ closes = ExampleCloses /\ brick_size = [num |-> 10, den |-> 1]

\* the units of cd that do not start a run after the first run
RECURSIVE RunHeadsDropped(_, _)
RunHeadsDropped(cd, k) ==
  IF k > Len(cd) THEN << >>
  ELSE IF k = 1 \/ cd[k] = cd[k - 1] THEN <<cd[k]>> \o RunHeadsDropped(cd, k + 1)
  ELSE RunHeadsDropped(cd, k + 1)

SignChanges(cd) == Cardinality({k \in 2..Len(cd) : cd[k] # cd[k - 1]})

\* C4: once pass 2 of _construct_renko_collections is over, bricks is cdiff
\* without the first unit of every run after the first run, so there is one
\* brick less than units for every adjacent sign change of cdiff.
C4_PayOneBrick ==
  (fn = "renko" /\ pc \in {"values", "returned"})
    => /\ bricks = RunHeadsDropped(cdiff, 1)
       /\ Len(bricks) = Len(cdiff) - SignChanges(cdiff)

\* a returned call whose units hold a run of one unit between two reversals
C4_Witness ==
  /\ Returned("renko")
  /\ \E k \in 2..(Len(cdiff) - 1) : cdiff[k] # cdiff[k - 1] /\ cdiff[k + 1] # cdiff[k]

\* the true range at the 0-based index ix >= 1, read without any wrapping
TrueRangeAt(ix) ==
  LET a == Abs(highs[ix + 1] - lows[ix + 1])
      b == Abs(highs[ix + 1] - closes[ix])
      c == Abs(lows[ix + 1] - closes[ix])
  IN CHOOSE m \in {a, b, c} : \A x \in {a, b, c} : m >= x

\* the sum of the true ranges at the indexes of the finite set S
RECURSIVE TrueRangeSum(_)
TrueRangeSum(S) ==
  IF S = {} THEN 0
  ELSE LET x == CHOOSE y \in S : TRUE IN TrueRangeAt(x) + TrueRangeSum(S \ {x})

AtrLengthValid == params.atr_length.val >= 1 /\ params.atr_length.val < Len(closes)

\* C5: for 1 <= length < len(closes), _calculate_atr returns the mean of
\* exactly `length` true ranges, one for each index from len-length to len-1,
\* and every previous-close index it reads is >= 0.
C5_AtrIsWindowMean ==
  (fn = "atr" /\ atr_ret.called /\ AtrLengthValid)
    => LET length == params.atr_length.val
           window == (Len(closes) - length)..(Len(closes) - 1)
       IN /\ atr_ret.err = "none"
          /\ atr_ret.den = length
          /\ atr_ret.n = length
          /\ atr_ret.num = TrueRangeSum(window)
          /\ atr_ret.reads = {k - 1 : k \in window}
          /\ \A r \in atr_ret.reads : r >= 0

\* a call over the longest valid window of a series with a nonzero range
C5_Witness ==
  /\ fn = "atr" /\ atr_ret.called /\ atr_ret.err = "none"
  /\ params.atr_length.val = Len(closes) - 1 /\ params.atr_length.val >= 2
  /\ atr_ret.num > 0

\* C6: _calculate_atr raises ValueError exactly when length < 1 or
\* length >= len(closes), and then returns no value.
C6_AtrRaisesIff ==
  (fn = "atr" /\ atr_ret.called)
    => /\ (atr_ret.err = "ValueError") <=> ~AtrLengthValid
       /\ atr_ret.err \in {"none", "ValueError"}
       /\ (atr_ret.err = "ValueError") => (pc # "returned" /\ atr_ret.n = 0)
       /\ (atr_ret.err = "none") => pc = "returned"

\* the call with length = len(closes) has raised
C6_Witness ==
  /\ fn = "atr" /\ atr_ret.called /\ atr_ret.err = "ValueError"
  /\ params.atr_length.val = Len(closes)

\* the close range and the ATR over the window len(closes)-1, for len >= 2
CloseRange == SeqMax(closes) - SeqMin(closes)

FullAtrSum == TrueRangeSum(1..(Len(closes) - 1))

\* 0.01 * ATR <= size <= 0.5 * range, the ATR being FullAtrSum / (len - 1)
SizeInBounds(size) ==
  /\ 100 * (Len(closes) - 1) * size >= FullAtrSum
  /\ 2 * size <= CloseRange

\* C7: in both aggregators an explicit size passes size validation exactly
\* when 0.01*ATR(len-1) <= size <= 0.5*(max(closes)-min(closes)); a size
\* beyond either bound raises ValueError.
C7_ExplicitSizeBounds ==
  (fn \in {"renko", "pnf"} /\ ~params.size.atr /\ Len(closes) >= 2)
    => /\ (pc = "resolve_size" /\ err # "none")
            => (err = "ValueError" /\ ~SizeInBounds(params.size.val))
       /\ pc # "resolve_size"
            => (SizeInBounds(params.size.val)
                /\ brick_size = [num |-> params.size.val, den |-> 1])

\* a size equal to the lower and to the upper bound has been accepted
C7_Witness ==
  /\ fn \in {"renko", "pnf"} /\ ~params.size.atr /\ Len(closes) >= 2
  /\ pc # "resolve_size" /\ params.size.val > 0
  /\ 100 * (Len(closes) - 1) * params.size.val = FullAtrSum
  /\ 2 * params.size.val = CloseRange

\* C8: _construct_pointnfig_collections never gets past validation with a
\* reversal < 1 or > 9, failing with nothing but ValueError, and the
\* reversal check never raises for 1 <= reversal <= 9.
C8_ReversalRange ==
  fn = "pnf"
    => /\ (params.reversal < 1 \/ params.reversal > 9)
            => (pc \in {"resolve_size", "check_reversal"} /\ err \in {"none", "ValueError"})
       /\ (params.reversal >= 1 /\ params.reversal <= 9)
            => ~(pc = "check_reversal" /\ err # "none")

\* the reversal check has raised for reversal = 10
C8_Witness ==
  fn = "pnf" /\ params.reversal = 10 /\ pc = "check_reversal" /\ err = "ValueError"

AtrLengthInvalid ==
  ~params.atr_length.total
  /\ (params.atr_length.val < 1 \/ params.atr_length.val >= Len(closes))

\* C9 as stated: a call of either aggregator with atr_length < 1 or
\* atr_length >= len(closes) fails with a configuration error, so it never
\* returns.
C9_AtrLengthRejected ==
  (fn \in {"renko", "pnf"} /\ AtrLengthInvalid) => pc # "returned"

\* C9 as amended: a call of either aggregator whose size is 'atr' and whose
\* atr_length is < 1 or >= len(closes) never gets past size resolution and
\* fails with ValueError.
C9_AtrLengthRejectedForAtrSize ==
  (fn \in {"renko", "pnf"} /\ params.size.atr /\ AtrLengthInvalid)
    => (pc = "resolve_size" /\ err \in {"none", "ValueError"})

\* a call with size 'atr' and atr_length = len(closes) has raised
C9_Witness ==
  /\ fn \in {"renko", "pnf"} /\ params.size.atr /\ ~params.atr_length.total
  /\ params.atr_length.val = Len(closes) /\ Len(closes) >= 2
  /\ pc = "resolve_size" /\ err = "ValueError"

\* the configuration is one the validation must reject
ConfigInvalid ==
  \/ params.size.atr /\ params.atr_length.total /\ Len(closes) - 1 < 1
  \/ params.size.atr /\ AtrLengthInvalid
  \/ ~params.size.atr /\ (Len(closes) - 1 < 1 \/ ~SizeInBounds(params.size.val))
  \/ fn = "pnf" /\ (params.reversal < 1 \/ params.reversal > 9)

NothingAggregated ==
  /\ i = 0 /\ volume_cache = 0
  /\ cdiff = << >> /\ bricks = << >> /\ boxes = << >> /\ adjusted_boxes = << >>
  /\ temp_volumes = << >> /\ temp_dates = << >>
  /\ new_dates = << >> /\ new_volumes = << >> /\ values = << >>

\* C10: in both aggregators a ValueError is raised only by the validation
\* blocks, before any aggregation step has run and with every output still
\* empty, and a call with an invalid configuration never runs an
\* aggregation step nor returns.
C10_AtomicFailure ==
  fn \in {"renko", "pnf"}
    => /\ err = "ValueError"
            => (pc \in {"resolve_size", "check_reversal"} /\ NothingAggregated)
       /\ ConfigInvalid
            => (pc \in {"resolve_size", "check_reversal"} /\ NothingAggregated)

\* the reversal check has raised after a size that passed validation
C10_Witness ==
  /\ fn = "pnf" /\ pc = "check_reversal" /\ err = "ValueError"
  /\ Len(closes) >= 2 /\ brick_size.num > 0 /\ NothingAggregated

\* the closes rise strictly from row to row
StrictlyIncreasing(C) == \A k \in 1..(Len(C) - 1) : C[k] < C[k + 1]

\* brick_size = (max(closes) - min(closes)) / k
SizeIsRangeOver(k) ==
  brick_size.num > 0 /\ k * brick_size.num = CloseRange * brick_size.den

\* every unit of pass 1 has the same sign
OneDirection(cd) == \A k \in 1..Len(cd) : cd[k] = cd[1]

\* C11: on a strictly increasing close series with brick_size = (max-min)/k,
\* k >= 2, _construct_renko_collections returns k-1, k or k+1 bricks, all of
\* them up-bricks (exactly k in exact arithmetic); and whenever every unit of
\* pass 1 has the same sign, the bricks are those units and no step of pass 2
\* changes new_dates or new_volumes.
C11_SingleDirectionRun ==
  /\ [](Returned("renko") /\ StrictlyIncreasing(closes)
          => \A k \in 2..(CloseRange + 1) :
               SizeIsRangeOver(k)
                 => /\ Len(bricks) \in (k - 1)..(k + 1)
                    /\ Len(bricks) = k
                    /\ \A j \in 1..Len(bricks) : bricks[j] = 1)
  /\ []((fn = "renko" /\ pc \in {"values", "returned"} /\ OneDirection(cdiff))
          => bricks = cdiff)
  /\ [][(fn = "renko" /\ pc = "pass2" /\ OneDirection(cdiff))
          => (new_dates' = new_dates /\ new_volumes' = new_volumes
              /\ err' = "none")]_vars

\* a returned run of three or more up-bricks over three or more rows, with
\* brick_size a third or less of the close range
C11_Witness ==
  /\ Returned("renko") /\ StrictlyIncreasing(closes) /\ Len(closes) >= 3
  /\ \E k \in 3..(CloseRange + 1) : SizeIsRangeOver(k) /\ Len(bricks) = k
  /\ Len(new_dates) = Len(bricks)

\* C12: with reversal = 1 the reversal-threshold pass of
\* _construct_pointnfig_collections is the identity: the returned counts,
\* volumes and dates are the adjusted_boxes, temp_volumes and temp_dates that
\* pass 3 produced.
C12_ReversalOneIdentity ==
  (fn = "pnf" /\ pc \in {"finish", "returned"} /\ params.reversal = 1)
    => /\ pc = "returned" => (boxes = adjusted_boxes /\ new_volumes = temp_volumes)
       /\ new_dates = temp_dates
       /\ rolling_change = 0 /\ biggest_difference = 0 /\ volume_cache = 0

\* a returned call with reversal = 1 and volumes whose pass 4 ran twice or
\* more, over a column of one box
C12_Witness ==
  /\ Returned("pnf") /\ params.reversal = 1 /\ volumes.given
  /\ Len(adjusted_boxes) >= 3
  /\ \E k \in 2..Len(adjusted_boxes) : Abs(adjusted_boxes[k]) = 1

\* C13: in pass 4 of _construct_pointnfig_collections the pending change
\* kept between iterations is always below reversal; an iteration whose
\* cumulative change stays below reversal leaves counts, volumes and dates
\* alone and keeps the change and its volume pending; the first iteration
\* whose cumulative change reaches reversal flushes it, merged into the last
\* column when it has that column's sign and appended as a new column with
\* its date otherwise, and resets the pending change and volume to zero.
C13_FlushAtReversal ==
  /\ []((fn = "pnf" /\ pc \in {"pass4", "finish"}) => Abs(rolling_change) < params.reversal)
  /\ [][(fn = "pnf" /\ pc = "pass4")
          => LET change == rolling_change + At(adjusted_boxes, i)
                 cache == volume_cache + At(temp_volumes, i)
                 n == Len(boxes)
             IN IF Abs(change) < params.reversal
                THEN /\ boxes' = boxes /\ new_volumes' = new_volumes
                     /\ new_dates' = new_dates
                     /\ rolling_change' = change /\ volume_cache' = cache
                ELSE /\ rolling_change' = 0 /\ volume_cache' = 0
                     /\ IF Sign(change) = Sign(boxes[n])
                        THEN /\ boxes' = [boxes EXCEPT ![n] = @ + change]
                             /\ new_volumes' = [new_volumes EXCEPT ![n] = @ + cache]
                             /\ new_dates' = new_dates
                        ELSE /\ boxes' = Append(boxes, change)
                             /\ new_volumes' = Append(new_volumes, cache)
                             /\ new_dates' = Append(new_dates, At(temp_dates, i))]_vars

\* with reversal = 3, the state right after the third iteration of pass 4,
\* the first at which the cumulative change reaches 3: nothing but that one
\* flush has touched the columns
C13_Witness ==
  /\ fn = "pnf" /\ pc \in {"pass4", "finish"} /\ params.reversal = 3 /\ i = 4
  /\ Len(adjusted_boxes) >= 4
  /\ Abs(adjusted_boxes[2]) < 3
  /\ Abs(adjusted_boxes[2] + adjusted_boxes[3]) < 3
  /\ Abs(adjusted_boxes[2] + adjusted_boxes[3] + adjusted_boxes[4]) >= 3
  /\ rolling_change = 0 /\ volume_cache = 0
  /\ Len(boxes) = 2
  /\ boxes[2] = adjusted_boxes[2] + adjusted_boxes[3] + adjusted_boxes[4]

\* C14: every column returned by _construct_pointnfig_collections other
\* than the first has a magnitude of at least reversal; a column is started
\* with at least reversal boxes and no later step shrinks it.
C14_ColumnsReachReversal ==
  /\ [](fn = "pnf" /\ pc \in {"pass4", "finish", "returned"}
          => \A k \in 2..Len(boxes) : Abs(boxes[k]) >= params.reversal)
  /\ [][(fn = "pnf" /\ pc \in {"pass4", "finish"})
          => \A k \in 2..Len(boxes) : Abs(boxes'[k]) >= Abs(boxes[k])]_vars

\* a returned call with reversal >= 2 whose last column, not the first, was
\* grown by the correction after the loop
C14_Witness ==
  /\ Returned("pnf") /\ params.reversal >= 2 /\ Len(boxes) >= 2
  /\ biggest_difference # 0
  /\ Abs(boxes[Len(boxes)]) > params.reversal

\* the counts of s are nonzero and alternate in sign
Alternating(s) ==
  /\ \A k \in 1..Len(s) : s[k] # 0
  /\ \A k \in 1..(Len(s) - 1) : Sign(s[k]) = -Sign(s[k + 1])

\* C15: every column count returned by _construct_pointnfig_collections is
\* nonzero and consecutive columns have opposite signs, and so has
\* adjusted_boxes during and after pass 3.
C15_ColumnsAlternate ==
  fn = "pnf"
    => /\ pc \in {"pass4", "finish", "returned"} => Alternating(boxes)
       /\ pc \in {"pass3", "init4", "pass4", "finish", "returned"}
            => Alternating(adjusted_boxes)

\* a returned call of three or more columns in which pass 3 and pass 4 each
\* merged something
C15_Witness ==
  /\ Returned("pnf") /\ Len(boxes) >= 3
  /\ Len(adjusted_boxes) > Len(boxes)

C17_InputsUnchanged ==
  /\ [][(fn \in {"renko", "pnf"})
          => (dates' = dates /\ highs' = highs /\ lows' = lows /\ closes' = closes
              /\ volumes' = volumes)]_vars
  /\ [](fn \in {"renko", "pnf"}
          => /\ dates = DatesOf(Len(closes))
             /\ volumes.given => volumes.v = VolumesOf(Len(closes))
             /\ Len(highs) = Len(closes) /\ Len(lows) = Len(closes))

\* a returned renko call whose pass 2 popped dates and volumes and added in
\* place, and a pnf call that raised after combine_adjacent
C17_Witness ==
  \/ /\ Returned("renko") /\ volumes.given /\ Len(bricks) < Len(cdiff)
     /\ Len(new_volumes) = Len(bricks) /\ Len(bricks) >= 2
  \/ /\ fn = "pnf" /\ pc = "combine" /\ err = "IndexError" /\ volumes.given
     /\ Len(closes) >= 3

NonDecreasing(s) == \A k \in 1..(Len(s) - 1) : s[k] <= s[k + 1]

\* C18: with the input dates in nondecreasing order, the dates of
\* _construct_renko_collections and _construct_pointnfig_collections are in
\* nondecreasing order after every step, whatever was dropped or merged, and
\* the returned dates are one per brick or one per column.
C18_DatesInOrder ==
  (fn \in {"renko", "pnf"} /\ NonDecreasing(dates))
    => /\ NonDecreasing(new_dates) /\ NonDecreasing(temp_dates)
       /\ Returned("renko") => Len(new_dates) = Len(bricks)
       /\ Returned("pnf") => Len(new_dates) = Len(boxes)

\* a returned renko call in which a reversal dropped a date that was not
\* the last one, leaving dates of three different rows
C18_Witness ==
  /\ Returned("renko") /\ Len(new_dates) < Len(cdiff)
  /\ \E a, b \in 1..Len(cdiff) : a < b /\ b < Len(cdiff) /\ cdiff[a] # cdiff[b]
  /\ Cardinality({new_dates[k] : k \in 1..Len(new_dates)}) >= 3

\* ComputeATR over the trailing w rows as the pair <<sum of true ranges, w>>
TrailingAtrSum(w) == TrueRangeSum((Len(closes) - w)..(Len(closes) - 1))

\* C19: when brick_size or box_size is 'atr', the size in use once
\* validation has passed, and the size returned, is the ATR of the trailing
\* atr_length rows when atr_length is a number and the ATR of the trailing
\* len(closes)-1 rows when atr_length is 'total'.
C19_AtrSizeWindow ==
  (fn \in {"renko", "pnf"} /\ params.size.atr /\ pc # "resolve_size")
    => LET w == IF params.atr_length.total THEN Len(closes) - 1
                ELSE params.atr_length.val
       IN /\ w >= 1 /\ w < Len(closes)
          /\ brick_size.den = w
          /\ brick_size.num = TrailingAtrSum(w)

\* a returned call with atr_length 'total' on three rows whose two true
\* ranges differ, so that a shorter window would give another size
C19_Witness ==
  /\ fn \in {"renko", "pnf"} /\ pc = "returned" /\ params.size.atr
  /\ Len(closes) = 3 /\ TrueRangeAt(1) # TrueRangeAt(2)
  /\ brick_size.num = TrueRangeAt(1) + TrueRangeAt(2)
  /\ params.atr_length.total

\* a step of pass 2 that drops a unit: new_dates loses an entry
DropsUnit ==
  fn = "renko" /\ pc = "pass2" /\ volumes.given /\ Len(new_dates') = Len(new_dates) - 1

\* after is before with the volume at index idx added to the entry at index
\* to (both 0-based, both present) and the entry at idx removed
FoldedInto(after, before, idx, to) ==
  /\ idx >= 0 /\ idx < Len(before) /\ to >= 0 /\ to < Len(before)
  /\ after = [j \in 1..(Len(before) - 1) |->
                LET src == IF j < idx + 1 THEN j ELSE j + 1
                IN IF src = to + 1 THEN before[src] + before[idx + 1] ELSE before[src]]

\* the dates without the entry at the 0-based index idx
DateRemoved(after, before, idx) ==
  /\ idx >= 0 /\ idx < Len(before)
  /\ after = [j \in 1..(Len(before) - 1) |-> IF j < idx + 1 THEN before[j] ELSE before[j + 1]]

\* C20 as stated: a unit dropped for a reversal has its volume folded into
\* the previous entry if it is not the last entry of the working list, and
\* into the following entry otherwise; its date entry is removed.
C20_FoldPreviousUnlessLast ==
  [][DropsUnit
       => LET idx == dates_volumes_index
              to == IF idx # Len(new_volumes) - 1 THEN idx - 1 ELSE idx + 1
          IN /\ FoldedInto(new_volumes', new_volumes, idx, to)
             /\ DateRemoved(new_dates', new_dates, idx)]_vars

\* C20 as amended: a unit dropped for a reversal has its volume folded into
\* the following entry if it is not the last entry of the working list, and
\* into the previous entry otherwise; its date entry is removed.
C20_FoldFollowingUnlessLast ==
  [][DropsUnit
       => LET idx == dates_volumes_index
              to == IF idx # Len(new_volumes) - 1 THEN idx + 1 ELSE idx - 1
          IN /\ FoldedInto(new_volumes', new_volumes, idx, to)
             /\ DateRemoved(new_dates', new_dates, idx)
             /\ err' = "none"]_vars

\* pass 2 has just dropped a unit that was not the last of the working list,
\* and the entry that followed it holds the volumes of two different rows
C20_Witness ==
  /\ fn = "renko" /\ pc = "pass2" /\ volumes.given /\ err = "none"
  /\ i >= 2 /\ cdiff[i] # cdiff[i - 1]
  /\ dates_volumes_index < Len(new_volumes)
  /\ \E a, b \in 1..Len(closes) :
       a < b /\ new_volumes[dates_volumes_index + 1] = volumes.v[a] + volumes.v[b]

\* the close the reference is compared with, times the size's denominator,
\* minus the reference: (closes[k] - reference) as a numerator
OffReference(k) == closes[k + 1] * brick_size.den - prev_close_brick

\* q is d / size truncated toward zero, d = n / brick_size.den
IsTruncatedQuotient(q, n) ==
  /\ q * n >= 0
  /\ Abs(q) * brick_size.num <= Abs(n)
  /\ Abs(n) < (Abs(q) + 1) * brick_size.num

\* C21: in pass 1 of both aggregators, with a size above 0, every step takes
\* the quotient (closes[i+1] - reference) / size truncated toward zero as
\* brick_diff or box_diff, emits it, and advances the reference by
\* brick_diff * size; after every step the reference is closes[0] plus a
\* whole number of sizes and is less than one size away from closes[i+1].
C21_DeltaExtraction ==
  /\ []((fn \in {"renko", "pnf"} /\ brick_size.num > 0
         /\ pc \notin {"resolve_size", "check_reversal"})
          => /\ (prev_close_brick - closes[1] * brick_size.den) % brick_size.num = 0
             /\ (pc = "pass1" /\ i >= 1) => Abs(OffReference(i)) < brick_size.num
             /\ (pc # "pass1" /\ Len(closes) >= 2)
                  => Abs(OffReference(Len(closes) - 1)) < brick_size.num)
  /\ [][(fn \in {"renko", "pnf"} /\ pc = "pass1" /\ brick_size.num > 0)
          => \E q \in (-Abs(OffReference(i + 1)))..Abs(OffReference(i + 1)) :
               /\ IsTruncatedQuotient(q, OffReference(i + 1))
               /\ prev_close_brick' = prev_close_brick + q * brick_size.num
               /\ fn = "renko" => cdiff' = cdiff \o [j \in 1..Abs(q) |-> Sign(q)]
               /\ fn = "pnf" => boxes' = IF q = 0 THEN boxes ELSE Append(boxes, q)]_vars

\* pass 1 has finished on a falling close that is not a whole number of
\* sizes below the reference, where truncation and flooring differ
C21_Witness ==
  /\ fn \in {"renko", "pnf"} /\ pc \notin {"resolve_size", "check_reversal", "pass1"}
  /\ err = "none" /\ brick_size.num > 0 /\ Len(closes) >= 3
  /\ OffReference(Len(closes) - 1) < 0
  /\ prev_close_brick # closes[1] * brick_size.den

\* the volumes of the rows a..b (0-based, inclusive) added up
RECURSIVE VolumeOfRows(_, _)
VolumeOfRows(a, b) == IF a > b THEN 0 ELSE volumes.v[a + 1] + VolumeOfRows(a + 1, b)

\* the 0-based step that emitted entry j of new_dates (the dates are 1..n),
\* and the last step before it that emitted anything, or -1
StepOf(j) == new_dates[j] - 1

PrevStepOf(j) ==
  LET earlier == {new_dates[k] - 1 : k \in {m \in 1..j : new_dates[m] < new_dates[j]}}
  IN IF earlier = {} THEN -1 ELSE CHOOSE x \in earlier : \A y \in earlier : x >= y

\* pass 1 of _construct_renko_collections is running or has just ended
InRenkoPass1 ==
  /\ fn = "renko" /\ volumes.given /\ err = "none"
  /\ \/ pc = "pass1"
     \/ pc = "pass2" /\ i = 0 /\ last_diff_sign = 0
     \/ pc \in {"values", "returned"} /\ cdiff = << >>

EndOfRenkoPass1 == InRenkoPass1 /\ pc # "pass1"

\* C22 as stated: in pass 1 of _construct_renko_collections a step without
\* a brick emits no row and the next step with a brick carries its volume,
\* so that the volume of no quiet step is lost: nothing is left in the cache
\* when pass 1 ends.
C22_NoQuietVolumeLost ==
  /\ [](EndOfRenkoPass1 => volume_cache = 0)
  /\ [](InRenkoPass1
          => \A j \in 1..Len(new_volumes) :
               new_volumes[j] = VolumeOfRows(PrevStepOf(j) + 1, StepOf(j)))

\* C22 as amended: in pass 1 of _construct_renko_collections a step without
\* a brick emits no row and adds its volume to the cache; a step with
\* brick_diff # 0 emits |brick_diff| rows, each with its own volume plus the
\* whole cache, and zeroes the cache; so every row holds the volumes of its
\* step and of the quiet steps since the last row, and the cache holds those
\* of the quiet steps after the last row, which are dropped when pass 1 ends
\* with no later brick.
C22_QuietVolumeCarried ==
  /\ [](InRenkoPass1
          => /\ Len(new_volumes) = Len(cdiff) /\ Len(new_dates) = Len(cdiff)
             /\ \A j \in 1..Len(new_volumes) :
                  new_volumes[j] = VolumeOfRows(PrevStepOf(j) + 1, StepOf(j))
             /\ LET last == IF Len(new_dates) = 0 THEN -1 ELSE StepOf(Len(new_dates))
                    done == IF pc = "pass1" THEN i - 1 ELSE Len(closes) - 2
                IN volume_cache = VolumeOfRows(last + 1, done))
  /\ [][(fn = "renko" /\ volumes.given /\ pc = "pass1" /\ brick_size.num > 0)
          => LET n == Len(cdiff') - Len(cdiff)
             IN IF n = 0
                THEN /\ new_volumes' = new_volumes /\ new_dates' = new_dates
                     /\ volume_cache' = volume_cache + At(volumes.v, i)
                ELSE /\ new_volumes'
                          = new_volumes \o [j \in 1..n |-> At(volumes.v, i) + volume_cache]
                     /\ new_dates' = new_dates \o [j \in 1..n |-> At(dates, i)]
                     /\ volume_cache' = 0]_vars

\* pass 1 has ended after a quiet step, a step of two bricks that carried
\* the quiet step's volume, and a trailing quiet step left in the cache
C22_Witness ==
  /\ EndOfRenkoPass1 /\ pc = "pass2"
  /\ volume_cache > 0
  /\ \E j \in 1..(Len(new_volumes) - 1) :
       /\ new_volumes[j] = new_volumes[j + 1]
       /\ StepOf(j) > PrevStepOf(j) + 1

\* the 1-based positions at which a maximal run of same-signed elements of
\* arr starts, and the position at which the run starting at k ends
RunStarts(arr) == {k \in 1..Len(arr) : k = 1 \/ Sign(arr[k]) # Sign(arr[k - 1])}

RunEnd(arr, k) ==
  LET later == {m \in RunStarts(arr) : m > k}
  IN IF later = {} THEN Len(arr) ELSE (CHOOSE m \in later : \A x \in later : m <= x) - 1

\* the j-th smallest element of the finite set of numbers S
RECURSIVE NthOf(_, _)
NthOf(S, j) ==
  LET lo == CHOOSE x \in S : \A y \in S : x <= y
  IN IF j = 1 THEN lo ELSE NthOf(S \ {lo}, j - 1)

\* C23: the combination step of _construct_pointnfig_collections turns the
\* nonzero deltas of pass 1 into one entry per maximal run of same-signed
\* deltas: its count is the sum of the run, its date the date of the run's
\* first delta, its volume the sum of the run's volumes; the totals of
\* counts and volumes are kept, and the indexes start at 0 and increase
\* strictly.
C23_CombineRuns ==
  [][(fn = "pnf" /\ pc = "combine")
       => LET starts == RunStarts(boxes)
              n == Cardinality(starts)
              indexes == combine_adjacent(boxes).indexes
          IN /\ \A k \in 1..Len(boxes) : boxes[k] # 0
             /\ Len(boxes') = n /\ Len(new_dates') = n /\ Len(new_volumes') = n
             /\ \A j \in 1..n :
                  LET a == NthOf(starts, j)
                      b == RunEnd(boxes, a)
                  IN /\ boxes'[j] = SumSeq(SubSeq(boxes, a, b))
                     /\ new_dates'[j] = temp_dates[a]
                     /\ indexes[j] = a - 1
                     /\ volumes.given => new_volumes'[j] = SumSeq(SubSeq(temp_volumes, a, b))
             /\ SumSeq(boxes') = SumSeq(boxes)
             /\ SumSeq(new_volumes') = SumSeq(temp_volumes)
             /\ Len(indexes) = n
             /\ n > 0 => indexes[1] = 0
             /\ \A j \in 1..(n - 1) : indexes[j] < indexes[j + 1]]_vars

\* the combination has just turned the deltas of two rising steps and one
\* falling step into two entries, the first with the volumes of two rows
C23_Witness ==
  /\ fn = "pnf" /\ pc = "pass3" /\ i = 1 /\ volumes.given
  /\ Len(closes) = 4 /\ closes[1] < closes[2] /\ closes[2] < closes[3]
  /\ closes[4] < closes[3]
  /\ brick_size.num = brick_size.den
  /\ Len(boxes) = 2 /\ boxes[1] = closes[3] - closes[1]
  /\ new_volumes = <<3, 4>> /\ new_dates = <<1, 3>>

\* C24: pass 3 of _construct_pointnfig_collections keeps the first combined
\* value, volume and date as they are and takes every later value one unit
\* toward zero; a value that becomes zero adds no column and parks its
\* volume in the cache; a nonzero one with the sign of the last column is
\* added to it together with its volume and the parked volume; one with the
\* opposite sign becomes a new column with its date and with its volume plus
\* the parked volume; both empty the cache.
C24_ReversalDiscount ==
  /\ []((fn = "pnf" /\ pc = "pass3" /\ i = 1)
          => /\ adjusted_boxes = <<boxes[1]>> /\ temp_volumes = <<new_volumes[1]>>
             /\ temp_dates = <<new_dates[1]>> /\ volume_cache = 0)
  /\ []((fn = "pnf" /\ pc \in {"pass3", "init4"})
          => adjusted_boxes[1] * boxes[1] > 0 /\ Abs(adjusted_boxes[1]) >= Abs(boxes[1]))
  /\ [][(fn = "pnf" /\ pc = "pass3")
          => LET value == boxes[i + 1]
                 reduced == IF value > 0 THEN value - 1 ELSE value + 1
                 n == Len(adjusted_boxes)
                 own == new_volumes[i + 1]
             IN IF reduced = 0
                THEN /\ adjusted_boxes' = adjusted_boxes /\ temp_volumes' = temp_volumes
                     /\ temp_dates' = temp_dates
                     /\ volume_cache' = volume_cache + own
                ELSE IF Sign(reduced) = Sign(adjusted_boxes[n])
                THEN /\ adjusted_boxes' = [adjusted_boxes EXCEPT ![n] = @ + reduced]
                     /\ temp_volumes' = [temp_volumes EXCEPT ![n] = @ + own + volume_cache]
                     /\ temp_dates' = temp_dates
                     /\ volume_cache' = 0
                ELSE /\ adjusted_boxes' = Append(adjusted_boxes, reduced)
                     /\ temp_volumes' = Append(temp_volumes, own + volume_cache)
                     /\ temp_dates' = Append(temp_dates, new_dates[i + 1])
                     /\ volume_cache' = 0]_vars

\* pass 3 has ended on three combined values: the second, of one box, was
\* parked, and the third was merged into the first column with both volumes
C24_Witness ==
  /\ fn = "pnf" /\ pc = "init4" /\ volumes.given
  /\ Len(boxes) = 3 /\ Abs(boxes[2]) = 1
  /\ adjusted_boxes = <<boxes[1] + boxes[3] - Sign(boxes[3])>>
  /\ temp_volumes = <<new_volumes[1] + new_volumes[2] + new_volumes[3]>>
  /\ volume_cache = 0

\* pass 4 retold over adjusted_boxes from element k on: the columns and
\* their volumes so far, the pending change and volume, and the set of the
\* pending changes seen since the last flush
RECURSIVE FlushWalk(_, _)
FlushWalk(k, w) ==
  IF k > Len(adjusted_boxes) THEN w
  ELSE LET r == w.roll + adjusted_boxes[k]
           v == w.vol + temp_volumes[k]
           n == Len(w.cols)
       IN IF Abs(r) < params.reversal
          THEN FlushWalk(k + 1, [w EXCEPT !.roll = r, !.vol = v, !.seen = @ \cup {r}])
          ELSE IF Sign(r) = Sign(w.cols[n])
          THEN FlushWalk(k + 1, [cols |-> [w.cols EXCEPT ![n] = @ + r],
                                 vols |-> [w.vols EXCEPT ![n] = @ + v],
                                 roll |-> 0, vol |-> 0, seen |-> {}])
          ELSE FlushWalk(k + 1, [cols |-> Append(w.cols, r), vols |-> Append(w.vols, v),
                                 roll |-> 0, vol |-> 0, seen |-> {}])

Flushed ==
  FlushWalk(2, [cols |-> <<adjusted_boxes[1]>>, vols |-> <<temp_volumes[1]>>,
                roll |-> 0, vol |-> 0, seen |-> {}])

\* the pending change of the largest magnitude, among those seen since the
\* last flush that have the sign of the last column; 0 if there is none
LargestSameSigned(w) ==
  LET same == {r \in w.seen : Sign(r) = Sign(w.cols[Len(w.cols)])}
  IN IF same = {} THEN 0 ELSE CHOOSE r \in same : \A x \in same : Abs(r) >= Abs(x)

PriceBefore(k) ==
  closes[1] * brick_size.den + brick_size.num * SumSeq(SubSeq(boxes, 1, k - 1))

\* C26 as stated: every returned column of magnitude m has m levels; those
\* of an up column are curr_price + i*box_size, i = 0..m-1, and those of a
\* down column are the unshifted stack curr_price - i*box_size, i = 0..m-1,
\* moved one box higher.
C26_DownStackOneHigher ==
  Returned("pnf")
    => /\ Len(values) = Len(boxes)
       /\ \A k \in 1..Len(boxes) :
            /\ Len(values[k]) = Abs(boxes[k])
            /\ \A j \in 1..Abs(boxes[k]) :
                 values[k][j] = IF boxes[k] > 0
                                THEN PriceBefore(k) + (j - 1) * brick_size.num
                                ELSE PriceBefore(k) - (j - 1) * brick_size.num
                                     + brick_size.num

\* C26 as amended: every returned column of magnitude m has m levels; those
\* of an up column are curr_price + i*box_size, i = 0..m-1, and those of a
\* down column are curr_price - i*box_size, i = 1..m: the unshifted stack
\* moved one box lower; curr_price starts at closes[0] and advances by the
\* column's count times box_size.
C26_DownStackOneLower ==
  Returned("pnf")
    => /\ Len(values) = Len(boxes)
       /\ curr_price = PriceBefore(Len(boxes) + 1)
       /\ \A k \in 1..Len(boxes) :
            /\ Len(values[k]) = Abs(boxes[k])
            /\ \A j \in 1..Abs(boxes[k]) :
                 values[k][j] = IF boxes[k] > 0
                                THEN PriceBefore(k) + (j - 1) * brick_size.num
                                ELSE PriceBefore(k) - (j - 1) * brick_size.num
                                     - brick_size.num

\* a returned call with an up column followed by a down column of two or
\* more boxes, whose top level is one box below the price the up column
\* reached
C26_Witness ==
  /\ Returned("pnf") /\ Len(boxes) >= 2
  /\ boxes[1] > 0 /\ boxes[2] <= -2
  /\ values[2][1] = PriceBefore(2) - brick_size.num
  /\ values[2][2] = PriceBefore(2) - 2 * brick_size.num

\* the units of pass 1 from the 1-based row k on, each with its sign and
\* the row whose date and volume it is given; ref is the reference numerator
RECURSIVE UnitsFrom(_, _)
UnitsFrom(k, ref) ==
  IF k > Len(closes) - 1 THEN << >>
  ELSE LET n == closes[k + 1] * brick_size.den - ref
           q == IF n >= 0 THEN n \div brick_size.num ELSE -((-n) \div brick_size.num)
       IN [j \in 1..Abs(q) |-> [sign |-> Sign(q), row |-> k]]
            \o UnitsFrom(k + 1, ref + q * brick_size.num)

\* the units that become bricks: all but the first unit of every run after
\* the first
RECURSIVE KeptUnits(_, _)
KeptUnits(u, j) ==
  IF j > Len(u) THEN << >>
  ELSE IF j > 1 /\ u[j].sign # u[j - 1].sign THEN KeptUnits(u, j + 1)
  ELSE <<u[j]>> \o KeptUnits(u, j + 1)

ReversalPending ==
  /\ fn = "renko" /\ pc = "pass2" /\ err = "none" /\ i < Len(cdiff)
  /\ last_diff_sign # 0 /\ Sign(At(cdiff, i)) # last_diff_sign

\* C28: whenever the reversal branch of pass 2 executes,
\* 1 <= dates_volumes_index < len(new_dates), and len(new_volumes) =
\* len(new_dates) when volumes are supplied, so the pop at
\* dates_volumes_index and the fold into the entry before or after it stay
\* inside the lists with a non-negative index, and no renko call raises
\* IndexError.
C28_ReversalIndexInRange ==
  /\ fn = "renko" => err # "IndexError"
  /\ ReversalPending
       => /\ 1 <= dates_volumes_index
          /\ dates_volumes_index < Len(new_dates)
          /\ volumes.given
               => /\ Len(new_volumes) = Len(new_dates)
                  /\ IF dates_volumes_index = Len(new_volumes) - 1
                     THEN dates_volumes_index - 1 >= 0
                     ELSE dates_volumes_index + 1 < Len(new_volumes)

\* the second of two consecutive reversals, units [+1,-1,+1], is about to
\* be dropped at the last index of the lists
C28_Witness ==
  /\ ReversalPending /\ volumes.given
  /\ cdiff = <<1, -1, 1>> /\ i = 2
  /\ dates_volumes_index = Len(new_volumes) - 1

\* size resolution has completed without error in an aggregator call
SizeResolved == fn \in {"renko", "pnf"} /\ pc # "resolve_size"

\* C29: whenever size resolution completes without error, for an explicit
\* size that passed the bounds check or an ATR-derived one, the resolved
\* brick_size / box_size is strictly greater than 0, so the division of
\* delta extraction never raises.
C29_SizePositive ==
  SizeResolved
    => /\ brick_size.num > 0 /\ brick_size.den > 0
       /\ ~(pc = "pass1" /\ err = "ZeroDivisionError")

\* C30: whenever box-size resolution and reversal validation succeed, delta
\* extraction yields at least one nonzero box_diff, so boxes[0],
\* new_volumes[0] and new_dates[0] are in range after combine_adjacent and
\* _construct_pointnfig_collections returns at least one column.  Stated
\* for the calls whose resolved box_size is positive, so that the division
\* of delta extraction is defined.
C30_PnfHasColumn ==
  (fn = "pnf" /\ brick_size.num > 0 /\ pc \notin {"resolve_size", "check_reversal"})
    => /\ err # "IndexError"
       /\ pc = "combine" => Len(boxes) >= 1
       /\ pc = "returned" => Len(boxes) >= 1

====
